---------------------------- MODULE Spec2Model ----------------------------
(***************************************************************************)
(* A model of py-trello's TrelloClient (trello/trelloclient.py) and of     *)
(* Attachment (trello/attachment.py, trello/attachmentpreview.py).         *)
(*                                                                         *)
(* Python values that the code tests with `is None`, `or` and `not` are    *)
(* tagged records, so that None, the empty string and the empty dict are   *)
(* three different values, as they are in Python.  JSON documents are TLA+ *)
(* records and sequences.  Strings that the code builds by concatenation   *)
(* or by % are sequences of pieces.                                        *)
(*                                                                         *)
(* The remote service is the environment: it answers a request in flight   *)
(* with any status of Statuses; a 200 answer carries a JSON document of    *)
(* the shape of the endpoint asked, any other answer carries plain text.   *)
(* Paths given to fetch_json are non-empty strings.                        *)
(***************************************************************************)
EXTENDS Integers, Sequences, FiniteSets, TLC

VARIABLES self, ctor, op, wire, result, sent, nFetch, nHttp, nOps

vars == <<self, ctor, op, wire, result, sent, nFetch, nHttp, nOps>>

(* bounds *)
MaxOps == 2
MaxLen == 2

-----------------------------------------------------------------------------
(* Python values *)

None == [type |-> "NoneType"]
Str(s) == [type |-> "str", val |-> s]
Dict(f) == [type |-> "dict", items |-> f]
EmptyItems == [k \in {} |-> ""]

IsNone(v) == v.type = "NoneType"

Truthy(v) ==
    CASE v.type = "NoneType" -> FALSE
      [] v.type = "str" -> v.val /= ""
      [] v.type = "dict" -> DOMAIN v.items /= {}
      [] v.type = "bool" -> v.val

(* Python's `a or b` *)
PyOr(a, b) == IF Truthy(a) THEN a ELSE b

-----------------------------------------------------------------------------
(* json.dumps and Response.json(): a text is not the document it encodes *)

JsonDumps(doc) == [type |-> "str", json |-> doc]
PlainText(s) == [type |-> "str", plain |-> s]
JsonLoads(t) == t.json

-----------------------------------------------------------------------------
(* TrelloClient.__init__ *)

OAuth1(api_key, api_secret, token, token_secret) ==
    [type |-> "OAuth1", client_key |-> api_key, client_secret |-> api_secret,
     resource_owner_key |-> token, resource_owner_secret |-> token_secret]

TrelloClientInit(api_key, api_secret, token, token_secret) ==
    [oauth |-> IF Truthy(api_key) \/ Truthy(token)
               THEN OAuth1(api_key, api_secret, token, token_secret)
               ELSE None,
     public_only |-> IsNone(token),
     api_key |-> api_key,
     api_secret |-> api_secret,
     resource_owner_key |-> token,
     resource_owner_secret |-> token_secret,
     all_info |-> [type |-> "unset"]]

Keys == {None, Str("key")}
Tokens == {None, Str(""), Str("tokA")}
SecretOf(k) == IF Truthy(k) THEN Str("secret") ELSE None

CtorArgs ==
    {[api_key |-> k, api_secret |-> SecretOf(k),
      token |-> t, token_secret |-> SecretOf(t)] : k \in Keys, t \in Tokens}


-----------------------------------------------------------------------------
(* TrelloClient.fetch_json: the request it builds *)

SetItem(f, k, v) == [x \in DOMAIN f \cup {k} |-> IF x = k THEN v ELSE f[x]]

JsonContentType == "application/json; charset=utf-8"
ApiBase == "https://api.trello.com/1/"
HookBase == "https://trello.com/1/tokens/"

(* lines 176-181: None defaults become fresh empty dicts *)
OrEmpty(d) == IF IsNone(d) THEN EmptyItems ELSE d.items

(* lines 184-186 *)
FetchData(post_args, files) ==
    IF IsNone(files) THEN JsonDumps(OrEmpty(post_args)) ELSE None

(* lines 189-192 *)
FetchHeaders(http_method, headers, files) ==
    LET h0 == OrEmpty(headers)
        h1 == IF http_method \in {"POST", "PUT", "DELETE"} /\ ~Truthy(files)
              THEN SetItem(h0, "Content-Type", JsonContentType)
              ELSE h0
    IN  SetItem(h1, "Accept", "application/json")

(* lines 195-197 *)
FetchUrl(uri_path) ==
    <<ApiBase>> \o (IF Head(uri_path) = "/" THEN Tail(uri_path) ELSE uri_path)

(* lines 200-202: the arguments of requests.request *)
FetchRequest(client, uri_path, http_method, headers, query_params, post_args, files) ==
    [method |-> http_method,
     url |-> FetchUrl(uri_path),
     params |-> OrEmpty(query_params),
     headers |-> FetchHeaders(http_method, headers, files),
     data |-> FetchData(post_args, files),
     auth |-> client.oauth,
     files |-> files]

(* a variant of FetchJson that sends its request a second time *)
FetchJson_SendsTwice(client, uri_path, http_method, headers, query_params, post_args, files) ==
    LET r == FetchRequest(client, uri_path, http_method, headers, query_params,
                          post_args, files)
    IN  <<r, r>>

(* lines 200-202: the HTTP requests one call of fetch_json issues *)
FetchJson(client, uri_path, http_method, headers, query_params, post_args, files) ==
    <<FetchRequest(client, uri_path, http_method, headers, query_params, post_args, files)>>

(* fetch_json(uri_path), every optional argument left at its default *)
Get(client, uri_path) ==
    FetchJson(client, uri_path, "GET", None, None, None, None)

(* lines 204-209: what fetch_json does with the response *)
Raise(cls, text, url, response) ==
    [kind |-> "raise",
     exc |-> [type |-> cls, msg |-> <<text, " at ", url>>, response |-> response]]

Return(v) == [kind |-> "return", value |-> v]

(* a variant of FetchResult that tests for 200 before it tests for 401 *)
FetchResult_TestsNot200First(response, url) ==
    IF response.status_code /= 200
    THEN Raise("ResourceUnavailable", response.text, url, response)
    ELSE IF response.status_code = 401
    THEN Raise("Unauthorized", response.text, url, response)
    ELSE Return(JsonLoads(response.text))

FetchResult(response, url) ==
    IF response.status_code = 401
    THEN Raise("Unauthorized", response.text, url, response)
    ELSE IF response.status_code /= 200
    THEN Raise("ResourceUnavailable", response.text, url, response)
    ELSE Return(JsonLoads(response.text))

-----------------------------------------------------------------------------
(* Resource objects built from JSON *)

(* Board.from_json(trello_client, json_obj) *)
BoardFromJson(obj) ==
    [cls |-> "Board", client |-> "self", id |-> obj.id, name |-> obj.name]

(* Organization.from_json(trello_client, json_obj) *)
OrganizationFromJson(obj) ==
    [cls |-> "Organization", client |-> "self", id |-> obj.id, name |-> obj.name]

(* List.from_json(board, json_obj) *)
ListFromJson(board, obj) ==
    [cls |-> "List", board |-> board, id |-> obj.id, name |-> obj.name]

(* Card.from_json(trello_list, json_obj) *)
CardFromJson(trello_list, obj) ==
    [cls |-> "Card", trello_list |-> trello_list, board |-> trello_list.board,
     id |-> obj.id, idList |-> obj.idList, idBoard |-> obj.idBoard]

(* Label.from_json(board, json_obj) *)
LabelFromJson(board, obj) ==
    [cls |-> "Label", board |-> board, id |-> obj.id, name |-> obj.name]

(* WebHook(client, token, hook_id, desc, id_model, callback_url, active) *)
WebHook(token, hook_id, desc, id_model, callback_url, active) ==
    [cls |-> "WebHook", client |-> "self", token |-> token, id |-> hook_id,
     desc |-> desc, id_model |-> id_model, callback_url |-> callback_url,
     active |-> active]

(* a variant of BoardsOf that builds the boards last entry first *)
BoardsOf_Reversed(json_obj) ==
    [i \in 1..Len(json_obj) |-> BoardFromJson(json_obj[Len(json_obj) + 1 - i])]

(* TrelloClient.list_boards, line 86 *)
BoardsOf(json_obj) == [i \in 1..Len(json_obj) |-> BoardFromJson(json_obj[i])]

(* TrelloClient.list_organizations, line 104 *)
OrganizationsOf(json_obj) ==
    [i \in 1..Len(json_obj) |-> OrganizationFromJson(json_obj[i])]

(* TrelloClient._existing_hook_objs *)
ExistingHookObjs(hooks, token) ==
    LET new_hook(hook) == WebHook(token, hook.id, hook.description, hook.idModel,
                                  hook.callbackURL, hook.active)
    IN  [i \in 1..Len(hooks) |-> new_hook(hooks[i])]

-----------------------------------------------------------------------------
(* Attachment and AttachmentPreview *)

(* dateutil's parser.parse: a timestamp for the texts it reads, an        *)
(* exception for everything else, None included                           *)
DateTable ==
    [s \in {"2015-03-01T10:00:00Z", "March 1 2015 10:00 UTC"} |->
        [type |-> "datetime", year |-> 2015, month |-> 3, day |-> 1, hour |-> 10]]

DateParses(d) == d.type = "str" /\ d.val \in DOMAIN DateTable
DateParse(d) == DateTable[d.val]

(* AttachmentPreview.__init__ *)
AttachmentPreview(id, bytes, scaled, url, height, width) ==
    [cls |-> "AttachmentPreview", id |-> id, bytes |-> bytes, scaled |-> scaled,
     url |-> url, height |-> height, width |-> width]

(* a variant of AttachmentDate that drops a date it cannot parse *)
AttachmentDate_DropsRaw(json_obj) ==
    IF DateParses(json_obj.date) THEN DateParse(json_obj.date) ELSE None

(* Attachment.from_json, lines 26-29 *)
AttachmentDate(json_obj) ==
    IF DateParses(json_obj.date) THEN DateParse(json_obj.date) ELSE json_obj.date

(* Attachment.from_json, lines 31-41 *)
AttachmentPreviews(json_obj) ==
    LET item(preview) == AttachmentPreview(preview._id, preview.bytes, preview.scaled,
                                           preview.url, preview.height, preview.width)
    IN  [i \in 1..Len(json_obj.previews) |-> item(json_obj.previews[i])]

(* Attachment.from_json *)
AttachmentFromJson(card, json_obj) ==
    [cls |-> "Attachment", card |-> card, id |-> json_obj.id,
     bytes |-> json_obj.bytes, edgeColor |-> json_obj.edgeColor,
     idMember |-> json_obj.idMember, isUpload |-> json_obj.isUpload,
     mimeType |-> json_obj.mimeType, url |-> json_obj.url,
     name |-> json_obj.name,
     date |-> AttachmentDate(json_obj),
     previews |-> AttachmentPreviews(json_obj)]

(* Attachment.from_json_list *)
AttachmentFromJsonList(card, json_objs) ==
    [i \in 1..Len(json_objs) |-> AttachmentFromJson(card, json_objs[i])]

-----------------------------------------------------------------------------
(* The remote service *)

Statuses == {200, 201, 401, 404}

RECURSIVE SeqsUpTo(_, _)
SeqsUpTo(S, n) ==
    IF n = 0 THEN {<<>>}
    ELSE LET shorter == SeqsUpTo(S, n - 1)
         IN  shorter \cup {Append(q, x) : q \in {p \in shorter : Len(p) = n - 1}, x \in S}

BoardDocs == {[id |-> "b1", name |-> "X"], [id |-> "b2", name |-> "Y"]}
OrgDocs == {[id |-> "o1", name |-> "Org"], [id |-> "o2", name |-> "Org"]}
ListDocs == {[id |-> "l1", name |-> "Todo"], [id |-> "l2", name |-> "Done"]}
LabelDocs == {[id |-> "lab1", name |-> "red"]}
CardDocs == [id : {"c1"}, idList : {"l1", "l2"}, idBoard : {"b1", "b2"}]
HookDocs ==
    [id : {"h1"}, description : {"d1"}, idModel : {"b1"},
     callbackURL : {"http://cb"}, active : {TRUE, FALSE}]
CreatedHookDocs == {[id |-> "abc"], [id |-> "h9"]}

(* the endpoint a request addresses: the piece of the URL after the base *)
Endpoint(req) == IF req.url[1] = HookBase THEN "webhooks" ELSE req.url[2]

DocsFor(req) ==
    LET e == Endpoint(req) IN
    CASE e = "cards/" -> CardDocs
      [] e = "lists/" -> ListDocs
      [] e \in {"boards/", "boards"} -> BoardDocs
      [] e = "labels/" -> LabelDocs
      [] e = "members/me/boards/?filter=" -> SeqsUpTo(BoardDocs, MaxLen)
      [] e = "members/me/boards/all" -> SeqsUpTo({[id |-> "b1", name |-> "X"]}, MaxLen)
      [] e = "members/me/organizations" -> SeqsUpTo(OrgDocs, MaxLen)
      [] e = "tokens/" -> SeqsUpTo(HookDocs, MaxLen)
      [] e = "webhooks" -> CreatedHookDocs

ErrorText(status) ==
    CASE status = 401 -> PlainText("invalid token")
      [] status = 404 -> PlainText("not found")
      [] OTHER -> PlainText("")

Bodies(req, status) ==
    IF status = 200 THEN {JsonDumps(d) : d \in DocsFor(req)} ELSE {ErrorText(status)}

-----------------------------------------------------------------------------
(* The state *)

Idle == [name |-> "idle"]
NoResult == [kind |-> "none"]
Quiet == [state |-> "idle"]

Result(call, r) ==
    IF r.kind = "return"
    THEN [call |-> call, kind |-> "return", value |-> r.value]
    ELSE [call |-> call, kind |-> "raise", exc |-> r.exc]

Init ==
    /\ ctor \in CtorArgs
    /\ self = TrelloClientInit(ctor.api_key, ctor.api_secret, ctor.token, ctor.token_secret)
    /\ op = Idle
    /\ wire = Quiet
    /\ result = NoResult
    /\ sent = <<>>
    /\ nFetch = 0
    /\ nHttp = 0
    /\ nOps = 0

CanCall == op = Idle /\ nOps < MaxOps

(* an operation begins: `begun` is its frame, `reqs` the requests it issues *)
(* before it first blocks, `fetches` how many of them fetch_json issues     *)
Begin(begun, reqs, fetches) ==
    /\ CanCall
    /\ op' = begun
    /\ wire' = [state |-> "request", req |-> reqs[Len(reqs)]]
    /\ sent' = reqs
    /\ nFetch' = nFetch + fetches
    /\ nHttp' = nHttp + Len(reqs)
    /\ nOps' = nOps + 1
    /\ result' = NoResult
    /\ UNCHANGED <<self, ctor>>

(* an operation ends without any request *)
Immediate(call, r) ==
    /\ CanCall
    /\ op' = Idle
    /\ wire' = Quiet
    /\ sent' = <<>>
    /\ nOps' = nOps + 1
    /\ result' = Result(call, r)
    /\ UNCHANGED <<self, ctor, nFetch, nHttp>>

Awaiting(name, pc) == op.name = name /\ op.pc = pc /\ wire.state = "response"

(* fetch_json's outcome for the response that has arrived *)
Fetched == FetchResult(wire.resp, wire.req.url)

(* the operation ends with r, the client left as client *)
EndWith(r, client) ==
    /\ op' = Idle
    /\ wire' = [wire EXCEPT !.state = "closed"]
    /\ result' = Result(op, r)
    /\ self' = client
    /\ UNCHANGED <<ctor, sent, nFetch, nHttp, nOps>>

End(r) == EndWith(r, self)

(* the operation goes on with another fetch_json call, which issues reqs *)
FetchNext(frame, reqs) ==
    /\ op' = frame
    /\ wire' = [state |-> "request", req |-> reqs[Len(reqs)]]
    /\ sent' = sent \o reqs
    /\ nFetch' = nFetch + 1
    /\ nHttp' = nHttp + Len(reqs)
    /\ UNCHANGED <<self, ctor, result, nOps>>

(* the service answers the request in flight *)
Respond ==
    /\ wire.state = "request"
    /\ \E s \in Statuses : \E t \in Bodies(wire.req, s) :
          wire' = [state |-> "response", req |-> wire.req,
                   resp |-> [status_code |-> s, text |-> t]]
    /\ UNCHANGED <<self, ctor, op, result, sent, nFetch, nHttp, nOps>>

-----------------------------------------------------------------------------
(* The operations of TrelloClient *)

Paths == {<<"/", "boards/", "b1">>, <<"members/me/organizations">>}
Methods == {"GET", "POST", "PUT", "DELETE"}
HeaderArgs == {None, Dict([Origin |-> "http://app"])}
QueryArgs == {None, Dict([fields |-> "name"])}
PostArgs == {None, Dict([name |-> "X"])}
FileArgs == {None, Dict(EmptyItems), Dict([file |-> "bytes"])}

FetchCall(p, m, h, q, a, f) ==
    [uri_path |-> p, http_method |-> m, headers |-> h, query_params |-> q,
     post_args |-> a, files |-> f]

(* the direct calls of fetch_json that are tried *)
FetchCalls ==
    {FetchCall(<<"/", "boards/", "b1">>, m, None, None, a, f) :
        m \in Methods, a \in PostArgs, f \in FileArgs}
    \cup
    {FetchCall(p, m, h, q, None, None) :
        p \in Paths, m \in {"GET", "POST"}, h \in HeaderArgs, q \in QueryArgs}

BoardIds == {"b1", "b2"}
CardIds == {"c1"}
LabelIds == {"lab1"}
Filters == {"all", "open"}
TokenArgs == {None, Str(""), Str("tokB")}
DescArgs == {None, Str("watch")}

(* fetch_json called by the user *)
fetch_json_call ==
    \E a \in FetchCalls :
        Begin([name |-> "fetch_json", pc |-> "response", args |-> a],
              FetchJson(self, a.uri_path, a.http_method, a.headers,
                        a.query_params, a.post_args, a.files), 1)

fetch_json_return ==
    /\ Awaiting("fetch_json", "response")
    /\ End(Fetched)

(* info_for_all_boards *)
info_for_all_boards_call ==
    \E actions \in {"all"} :
        LET frame == [name |-> "info_for_all_boards", pc |-> "response",
                      actions |-> actions]
        IN  IF self.public_only
            THEN Immediate(frame, Return(None))
            ELSE Begin(frame,
                       FetchJson(self, <<"/", "members/me/boards/all">>, "GET",
                                 None, Dict([actions |-> actions]), None, None), 1)

info_for_all_boards_return ==
    /\ Awaiting("info_for_all_boards", "response")
    /\ IF Fetched.kind = "raise"
       THEN End(Fetched)
       ELSE EndWith(Return(None), [self EXCEPT !.all_info = Fetched.value])

(* logout *)
logout ==
    Immediate([name |-> "logout"],
              [kind |-> "raise", exc |-> [type |-> "NotImplementedError"]])

(* list_boards *)
list_boards_call ==
    \E board_filter \in Filters :
        Begin([name |-> "list_boards", pc |-> "response", board_filter |-> board_filter],
              Get(self, <<"/", "members/me/boards/?filter=", board_filter>>), 1)

list_boards_return ==
    /\ Awaiting("list_boards", "response")
    /\ IF Fetched.kind = "raise" THEN End(Fetched)
       ELSE End(Return(BoardsOf(Fetched.value)))

(* list_organizations *)
list_organizations_call ==
    Begin([name |-> "list_organizations", pc |-> "response"],
          Get(self, <<"members/me/organizations">>), 1)

list_organizations_return ==
    /\ Awaiting("list_organizations", "response")
    /\ IF Fetched.kind = "raise" THEN End(Fetched)
       ELSE End(Return(OrganizationsOf(Fetched.value)))

(* line 149: '/cards/' + card_id *)
CardPath(card_id) == <<"/", "cards/", card_id>>

(* a variant of ListPath that asks for the list by the card's board id *)
ListPath_ByBoard(card_json) == <<"/", "lists/", card_json.idBoard>>

(* line 150: '/lists/' + card_json['idList'] *)
ListPath(card_json) == <<"/", "lists/", card_json.idList>>

(* line 120: '/boards/' + board_id *)
BoardPath(board_id) == <<"/", "boards/", board_id>>

(* line 162: '/labels/' + label_id *)
LabelPath(label_id) == <<"/", "labels/", label_id>>

(* get_board *)
get_board_call ==
    \E board_id \in BoardIds :
        Begin([name |-> "get_board", pc |-> "response", board_id |-> board_id],
              Get(self, BoardPath(board_id)), 1)

get_board_return ==
    /\ Awaiting("get_board", "response")
    /\ IF Fetched.kind = "raise" THEN End(Fetched)
       ELSE End(Return(BoardFromJson(Fetched.value)))

(* add_board *)
add_board_call ==
    \E board_name \in {"New"} : \E source_board \in {None} \cup {BoardFromJson(d) : d \in BoardDocs} :
        LET post_args == IF source_board /= None
                         THEN [name |-> board_name, idBoardSource |-> source_board.id]
                         ELSE [name |-> board_name]
        IN  Begin([name |-> "add_board", pc |-> "response", board_name |-> board_name,
                   source_board |-> source_board],
                  FetchJson(self, <<"/", "boards">>, "POST", None, None,
                            Dict(post_args), None), 1)

add_board_return ==
    /\ Awaiting("add_board", "response")
    /\ IF Fetched.kind = "raise" THEN End(Fetched)
       ELSE End(Return(BoardFromJson(Fetched.value)))

(* get_card *)
get_card_call ==
    \E card_id \in CardIds :
        Begin([name |-> "get_card", pc |-> "card", card_id |-> card_id],
              Get(self, CardPath(card_id)), 1)

(* a variant of get_card_card that sends the card request again when it fails *)
get_card_card_Retries ==
    /\ Awaiting("get_card", "card")
    /\ IF Fetched.kind = "raise" THEN FetchNext(op, <<wire.req>>)
       ELSE FetchNext([name |-> "get_card", pc |-> "list", card_id |-> op.card_id,
                       card_json |-> Fetched.value],
                      Get(self, ListPath(Fetched.value)))

(* line 149 has returned, line 150 *)
get_card_card ==
    /\ Awaiting("get_card", "card")
    /\ IF Fetched.kind = "raise" THEN End(Fetched)
       ELSE FetchNext([name |-> "get_card", pc |-> "list", card_id |-> op.card_id,
                       card_json |-> Fetched.value],
                      Get(self, ListPath(Fetched.value)))

(* line 150 has returned, line 151: get_board, line 120 *)
get_card_list ==
    /\ Awaiting("get_card", "list")
    /\ IF Fetched.kind = "raise" THEN End(Fetched)
       ELSE FetchNext([name |-> "get_card", pc |-> "board", card_id |-> op.card_id,
                       card_json |-> op.card_json, list_json |-> Fetched.value],
                      Get(self, BoardPath(op.card_json.idBoard)))

(* get_board has its response, lines 121 and 152 *)
get_card_board ==
    /\ Awaiting("get_card", "board")
    /\ IF Fetched.kind = "raise" THEN End(Fetched)
       ELSE LET board == BoardFromJson(Fetched.value)
            IN  End(Return(CardFromJson(ListFromJson(board, op.list_json), op.card_json)))

(* get_label *)
get_label_call ==
    \E label_id \in LabelIds : \E board_id \in BoardIds :
        Begin([name |-> "get_label", pc |-> "board", label_id |-> label_id,
               board_id |-> board_id],
              Get(self, BoardPath(board_id)), 1)

(* get_board has its response, lines 121 and 162 *)
get_label_board ==
    /\ Awaiting("get_label", "board")
    /\ IF Fetched.kind = "raise" THEN End(Fetched)
       ELSE FetchNext([name |-> "get_label", pc |-> "label", label_id |-> op.label_id,
                       board_id |-> op.board_id, board |-> BoardFromJson(Fetched.value)],
                      Get(self, LabelPath(op.label_id)))

get_label_label ==
    /\ Awaiting("get_label", "label")
    /\ IF Fetched.kind = "raise" THEN End(Fetched)
       ELSE End(Return(LabelFromJson(op.board, Fetched.value)))

(* a variant of TokenFor that prefers the client's stored token *)
TokenFor_StoredFirst(token, client) == PyOr(client.resource_owner_key, token)

(* lines 216 and 244: token = token or self.resource_owner_key *)
TokenFor(token, client) == PyOr(token, client.resource_owner_key)

TokenError == [kind |-> "raise", exc |-> [type |-> "TokenError"]]

(* list_hooks *)
list_hooks_call ==
    \E token \in TokenArgs :
        LET tok == TokenFor(token, self)
            frame == [name |-> "list_hooks", pc |-> "response", token |-> token,
                      tok |-> tok]
        IN  IF IsNone(tok)
            THEN Immediate(frame, TokenError)
            ELSE Begin(frame, Get(self, <<"/", "tokens/", tok.val, "/webhooks">>), 1)

list_hooks_return ==
    /\ Awaiting("list_hooks", "response")
    /\ IF Fetched.kind = "raise" THEN End(Fetched)
       ELSE End(Return(ExistingHookObjs(Fetched.value, op.tok)))

(* create_hook *)
False == [type |-> "bool", val |-> FALSE]

(* lines 249-253: the arguments of requests.post *)
CreateHookRequest(client, tok, callback_url, id_model, desc) ==
    [method |-> "POST",
     url |-> <<HookBase, tok.val, "/webhooks/">>,
     params |-> EmptyItems,
     headers |-> EmptyItems,
     data |-> Dict([callbackURL |-> Str(callback_url), idModel |-> Str(id_model),
                    description |-> desc]),
     auth |-> client.oauth,
     files |-> None]

(* a variant of CreateHookResult that treats 401 as fetch_json does *)
CreateHookResult_Raises401(response, tok, callback_url, id_model, desc) ==
    IF response.status_code = 200
    THEN Return(WebHook(tok, JsonLoads(response.text).id, desc, id_model,
                        callback_url, TRUE))
    ELSE IF response.status_code = 401
    THEN Raise("Unauthorized", response.text, <<HookBase, tok.val, "/webhooks/">>, response)
    ELSE Return(False)

(* lines 255-259 *)
CreateHookResult(response, tok, callback_url, id_model, desc) ==
    IF response.status_code = 200
    THEN Return(WebHook(tok, JsonLoads(response.text).id, desc, id_model,
                        callback_url, TRUE))
    ELSE Return(False)

create_hook_call ==
    \E callback_url \in {"http://cb"} : \E id_model \in BoardIds :
    \E desc \in DescArgs : \E token \in TokenArgs :
        LET tok == TokenFor(token, self)
            frame == [name |-> "create_hook", pc |-> "response",
                      callback_url |-> callback_url, id_model |-> id_model,
                      desc |-> desc, token |-> token, tok |-> tok]
        IN  IF IsNone(tok)
            THEN Immediate(frame, TokenError)
            ELSE Begin(frame,
                       <<CreateHookRequest(self, tok, callback_url, id_model, desc)>>, 0)

create_hook_return ==
    /\ Awaiting("create_hook", "response")
    /\ End(CreateHookResult(wire.resp, op.tok, op.callback_url, op.id_model, op.desc))

-----------------------------------------------------------------------------
(* The operations of Attachment *)

PreviewDocs ==
    {[_id |-> "p1", bytes |-> 10, scaled |-> FALSE, url |-> "http://p1",
      height |-> 1, width |-> 2],
     [_id |-> "p2", bytes |-> 20, scaled |-> TRUE, url |-> "http://p2",
      height |-> 3, width |-> 4]}

DateValues == {Str("2015-03-01T10:00:00Z"), Str("soon"), None}

AttachmentDocs ==
    [id : {"a1"}, name : {"file.txt"}, bytes : {100}, edgeColor : {"#fff"},
     idMember : {"m1"}, isUpload : {TRUE}, mimeType : {"text/plain"},
     url : {"http://a1"}, date : DateValues,
     previews : {<<>>} \cup {pq \in PreviewDocs \X PreviewDocs : pq[1] /= pq[2]}]

attachment_from_json ==
    \E json_obj \in AttachmentDocs :
        Immediate([name |-> "Attachment.from_json", json_obj |-> json_obj],
                  Return(AttachmentFromJson("card", json_obj)))

attachment_from_json_list ==
    \E json_objs \in SeqsUpTo({d \in AttachmentDocs : d.previews = <<>>}, MaxLen) :
        Immediate([name |-> "Attachment.from_json_list", json_objs |-> json_objs],
                  Return(AttachmentFromJsonList("card", json_objs)))

-----------------------------------------------------------------------------

Next ==
    \/ fetch_json_call
    \/ fetch_json_return
    \/ info_for_all_boards_call
    \/ info_for_all_boards_return
    \/ logout
    \/ list_boards_call
    \/ list_boards_return
    \/ list_organizations_call
    \/ list_organizations_return
    \/ get_board_call
    \/ get_board_return
    \/ add_board_call
    \/ add_board_return
    \/ get_card_call
    \/ get_card_card
    \/ get_card_list
    \/ get_card_board
    \/ get_label_call
    \/ get_label_board
    \/ get_label_label
    \/ list_hooks_call
    \/ list_hooks_return
    \/ create_hook_call
    \/ create_hook_return
    \/ attachment_from_json
    \/ attachment_from_json_list
    \/ Respond

Spec == Init /\ [][Next]_vars

-----------------------------------------------------------------------------
(* Properties *)

(* an operation has ended after an HTTP exchange; wire holds the exchange *)
Ended(name) ==
    /\ op = Idle
    /\ result.kind /= "none"
    /\ result.call.name = name
    /\ wire.state = "closed"

RaisedFor(response, cls) ==
    /\ result.kind = "raise"
    /\ result.exc.type = cls
    /\ result.exc.msg[1] = response.text
    /\ result.exc.response = response
    /\ "value" \notin DOMAIN result

(* C1: a call of fetch_json that gets status 401 fails with Unauthorized, one  *)
(* that gets any other status than 200 fails with ResourceUnavailable, both    *)
(* errors carrying the body text and the raw response and no parsed body; one  *)
(* that gets 200 returns the parsed JSON body of the response unchanged.       *)
C1_StatusContract ==
    /\ Ended("fetch_json") =>
          LET response == wire.resp IN
          /\ response.status_code = 401 => RaisedFor(response, "Unauthorized")
          /\ response.status_code \notin {200, 401} =>
                RaisedFor(response, "ResourceUnavailable")
          /\ response.status_code = 200 =>
                /\ result.kind = "return"
                /\ result.value = JsonLoads(response.text)
    /\ \* the calls of fetch_json that the other operations make
       (op = Idle /\ result.kind /= "none" /\ wire.state = "closed"
           /\ result.call.name /= "create_hook") =>
          LET response == wire.resp IN
          /\ response.status_code = 401 => RaisedFor(response, "Unauthorized")
          /\ response.status_code \notin {200, 401} =>
                RaisedFor(response, "ResourceUnavailable")
          /\ response.status_code = 200 => result.kind = "return"

C1_Witness ==
    /\ Ended("fetch_json")
    /\ wire.resp.status_code = 401
    /\ result.kind = "raise"

(* C2: every call of fetch_json issues exactly one HTTP request; a failing     *)
(* response is not followed by another request of the same call, and no call   *)
(* is answered without a request.  The only other request is create_hook's     *)
(* POST.                                                                       *)
C2_OneRequestPerCall ==
    [][/\ nFetch' \in {nFetch, nFetch + 1}
       /\ nHttp' - nHttp =
             (nFetch' - nFetch)
             + (IF op = Idle /\ op' /= Idle /\ op'.name = "create_hook" THEN 1 ELSE 0)
       /\ (wire.state = "response" /\ wire.resp.status_code /= 200) =>
             /\ nHttp' = nHttp
             /\ op' = Idle]_vars

C2_Witness ==
    /\ Ended("fetch_json")
    /\ wire.resp.status_code = 401
    /\ nOps = 2
    /\ nFetch = 2
    /\ nHttp = 2

(* C3: a get_card whose fetches all succeed has issued exactly three requests,  *)
(* the card, then the list of the card's idList, then the board of the card's   *)
(* idBoard; the later requests are issued only once the earlier have returned,  *)
(* and the Card's list and board are built from the fetched list and board.     *)
UrlOf(path) == <<ApiBase>> \o path

C3_GetCardOrder ==
    /\ (op /= Idle /\ op.name = "get_card") =>
          /\ Len(sent) = (CASE op.pc = "card" -> 1 [] op.pc = "list" -> 2
                            [] op.pc = "board" -> 3)
          /\ sent[1].url = UrlOf(<<"cards/", op.card_id>>)
          /\ Len(sent) >= 2 => sent[2].url = UrlOf(<<"lists/", op.card_json.idList>>)
          /\ Len(sent) >= 3 => sent[3].url = UrlOf(<<"boards/", op.card_json.idBoard>>)
    /\ (Ended("get_card") /\ result.kind = "return") =>
          LET card_json == result.call.card_json
              list_json == result.call.list_json
              board_json == JsonLoads(wire.resp.text)
              card == result.value
          IN  /\ Len(sent) = 3
              /\ sent[1].url = UrlOf(<<"cards/", result.call.card_id>>)
              /\ sent[2].url = UrlOf(<<"lists/", card_json.idList>>)
              /\ sent[3].url = UrlOf(<<"boards/", card_json.idBoard>>)
              /\ \A i \in 1..3 : sent[i].method = "GET"
              /\ card.cls = "Card" /\ card.id = card_json.id
              /\ card.trello_list.cls = "List" /\ card.trello_list.id = list_json.id
              /\ card.board.cls = "Board" /\ card.board.id = board_json.id
              /\ card.trello_list.board = card.board

C3_Witness ==
    /\ Ended("get_card")
    /\ result.kind = "return"
    /\ result.call.card_json.idList = "l2"
    /\ result.call.card_json.idBoard = "b1"
    /\ result.value.board.id = "b2"

(* list_hooks or create_hook has ended, with or without a request *)
HookOpEnded ==
    /\ op = Idle
    /\ result.kind /= "none"
    /\ result.call.name \in {"list_hooks", "create_hook"}

(* the token in the URL of a webhook request *)
TokenPiece(req) == IF req.url[1] = HookBase THEN req.url[2] ELSE req.url[3]

FailedWithTokenError ==
    /\ result.kind = "raise"
    /\ result.exc.type = "TokenError"
    /\ sent = <<>>
    /\ wire = Quiet

RequestedWith(token) ==
    /\ Len(sent) = 1
    /\ TokenPiece(sent[1]) = token.val
    /\ ~(result.kind = "raise" /\ result.exc.type = "TokenError")

(* C4, as stated: with no token argument and no stored token the operation     *)
(* fails with TokenError before any request; a token argument that is given    *)
(* is used in preference to the stored token; with only a stored token, that   *)
(* one is used.                                                                *)
C4_AsStated ==
    HookOpEnded =>
        LET token == result.call.token
            stored == self.resource_owner_key
        IN  /\ (IsNone(token) /\ IsNone(stored)) => FailedWithTokenError
            /\ ~IsNone(token) => RequestedWith(token)
            /\ (IsNone(token) /\ ~IsNone(stored)) => RequestedWith(stored)

(* C4, amended: a token argument that is not empty is used in preference to    *)
(* the stored token; with no token argument or an empty one, the stored token  *)
(* is used when it is not None, and the operation fails with TokenError before *)
(* any request when it is None.                                                *)
C4_TokenChoice ==
    HookOpEnded =>
        LET token == result.call.token
            stored == self.resource_owner_key
        IN  /\ (~Truthy(token) /\ IsNone(stored)) => FailedWithTokenError
            /\ Truthy(token) => RequestedWith(token)
            /\ (~Truthy(token) /\ ~IsNone(stored)) => RequestedWith(stored)

C4_Witness ==
    /\ HookOpEnded
    /\ result.call.name = "list_hooks"
    /\ result.call.token = Str("tokB")
    /\ self.resource_owner_key = Str("tokA")
    /\ RequestedWith(Str("tokB"))

(* C5: create_hook with a token available issues one POST; on status 200 it    *)
(* returns a WebHook with the id of the response body, the callback URL, model *)
(* id and description given, and active true; on every other status, 401       *)
(* included, it returns a falsy value and raises nothing.                      *)
C5_CreateHook ==
    /\ Ended("create_hook") =>
          /\ Len(sent) = 1
          /\ sent[1].method = "POST"
          /\ sent[1] = wire.req
          /\ result.kind = "return"
          /\ wire.resp.status_code = 200 =>
                /\ result.value.cls = "WebHook"
                /\ result.value.id = JsonLoads(wire.resp.text).id
                /\ result.value.callback_url = result.call.callback_url
                /\ result.value.id_model = result.call.id_model
                /\ result.value.desc = result.call.desc
                /\ result.value.active = TRUE
          /\ wire.resp.status_code /= 200 => ~Truthy(result.value)
    /\ (HookOpEnded /\ result.call.name = "create_hook" /\ result.kind = "raise") =>
          result.exc.type = "TokenError"

C5_Witness ==
    /\ Ended("create_hook")
    /\ wire.resp.status_code = 200
    /\ result.value.id = "abc"
    /\ result.value.desc = Str("watch")

(* what C6 says: the client holds a signing credential iff a key or a token was supplied *)
(* at construction, public_only is true iff no token was supplied, the stored  *)
(* fields are the constructor's arguments, and every request is signed exactly *)
(* when a key or a token was supplied.  `Supplied' is read the same way for    *)
(* the key and the token.                                                      *)
Supplied(reading, v) == IF reading = "not None" THEN ~IsNone(v) ELSE Truthy(v)

C6_Reading(reading) ==
    LET credentialed == Supplied(reading, ctor.api_key) \/ Supplied(reading, ctor.token) IN
    /\ ~IsNone(self.oauth) <=> credentialed
    /\ self.public_only <=> ~Supplied(reading, ctor.token)
    /\ self.api_key = ctor.api_key
    /\ self.api_secret = ctor.api_secret
    /\ self.resource_owner_key = ctor.token
    /\ self.resource_owner_secret = ctor.token_secret
    /\ \A i \in 1..Len(sent) : ~IsNone(sent[i].auth) <=> credentialed

(* C6, as stated, with supplied read as `not None' or as `not empty' *)
C6_AsStated == C6_Reading("not None") \/ C6_Reading("not empty")

(* a direct call of fetch_json has issued its request *)
FetchJsonSent ==
    \/ op /= Idle /\ op.name = "fetch_json"
    \/ Ended("fetch_json")

FetchJsonArgs == IF op /= Idle THEN op.args ELSE result.call.args

HasJsonContentType(req) ==
    /\ "Content-Type" \in DOMAIN req.headers
    /\ req.headers["Content-Type"] = JsonContentType

(* what C7 says: the request of fetch_json is fixed by (method, files): with files       *)
(* supplied it has no JSON body and no JSON Content-Type; without files its    *)
(* body is the JSON text of body_args ({} when omitted) and it has the JSON    *)
(* Content-Type exactly when the method is POST, PUT or DELETE; Accept:        *)
(* application/json is always set.                                             *)
C7_Reading(reading) ==
    FetchJsonSent =>
        LET a == FetchJsonArgs
            req == sent[1]
        IN  /\ Supplied(reading, a.files) =>
                  /\ IsNone(req.data)
                  /\ ~HasJsonContentType(req)
            /\ ~Supplied(reading, a.files) =>
                  /\ req.data = JsonDumps(IF IsNone(a.post_args) THEN EmptyItems
                                          ELSE a.post_args.items)
                  /\ HasJsonContentType(req) <=>
                        a.http_method \in {"POST", "PUT", "DELETE"}
            /\ "Accept" \in DOMAIN req.headers
            /\ req.headers["Accept"] = "application/json"

(* C7, as stated, with supplied read as `not None' or as `not empty' *)
C7_AsStated == C7_Reading("not None") \/ C7_Reading("not empty")

(* C8: a list-returning operation returns one object per entry of the JSON     *)
(* array, in the array's order, the i-th object built from the i-th entry.     *)
SameIdAndName(cls, objs, json) ==
    /\ Len(objs) = Len(json)
    /\ \A i \in 1..Len(json) :
          /\ objs[i].cls = cls
          /\ objs[i].id = json[i].id
          /\ objs[i].name = json[i].name

C8_OnePerEntry ==
    /\ (Ended("list_boards") /\ result.kind = "return") =>
          SameIdAndName("Board", result.value, JsonLoads(wire.resp.text))
    /\ (Ended("list_organizations") /\ result.kind = "return") =>
          SameIdAndName("Organization", result.value, JsonLoads(wire.resp.text))
    /\ (Ended("list_hooks") /\ result.kind = "return") =>
          LET json == JsonLoads(wire.resp.text) IN
          /\ Len(result.value) = Len(json)
          /\ \A i \in 1..Len(json) :
                /\ result.value[i].cls = "WebHook"
                /\ result.value[i].id = json[i].id
                /\ result.value[i].desc = json[i].description
                /\ result.value[i].id_model = json[i].idModel
                /\ result.value[i].callback_url = json[i].callbackURL
                /\ result.value[i].active = json[i].active
    /\ (result.kind /= "none" /\ result.call.name = "Attachment.from_json_list") =>
          LET json == result.call.json_objs IN
          /\ result.kind = "return"
          /\ Len(result.value) = Len(json)
          /\ \A i \in 1..Len(json) :
                /\ result.value[i].cls = "Attachment"
                /\ result.value[i].id = json[i].id
                /\ result.value[i].date \in {json[i].date} \cup
                      {DateTable[s] : s \in DOMAIN DateTable}
                /\ result.value[i].date = json[i].date <=> ~DateParses(json[i].date)

C8_Witness ==
    /\ Ended("list_boards")
    /\ result.kind = "return"
    /\ Len(result.value) = 2
    /\ result.value[1].id = "b2"
    /\ result.value[2].id = "b1"

(* C9: Attachment.from_json succeeds whatever the value of date: the date      *)
(* attribute is the parsed timestamp when the value parses and the raw value   *)
(* when it does not, and every other field is set all the same.                *)
C9_LenientDate ==
    (result.kind /= "none" /\ result.call.name = "Attachment.from_json") =>
        LET json == result.call.json_obj
            a == result.value
        IN  /\ result.kind = "return"
            /\ DateParses(json.date) =>
                  /\ a.date.type = "datetime"
                  /\ a.date = DateTable[json.date.val]
            /\ ~DateParses(json.date) => a.date = json.date
            /\ a.id = json.id /\ a.name = json.name /\ a.bytes = json.bytes
            /\ a.edgeColor = json.edgeColor /\ a.idMember = json.idMember
            /\ a.isUpload = json.isUpload /\ a.mimeType = json.mimeType
            /\ a.url = json.url
            /\ Len(a.previews) = Len(json.previews)
            /\ \A i \in 1..Len(json.previews) :
                  /\ a.previews[i].id = json.previews[i]._id
                  /\ a.previews[i].url = json.previews[i].url

C9_Witness ==
    /\ result.kind = "return"
    /\ result.call.name = "Attachment.from_json"
    /\ result.call.json_obj.date = Str("soon")
    /\ result.value.date = Str("soon")
    /\ Len(result.value.previews) = 2

(* C10: in get_card and get_label the first fetch that gets a non-200 response *)
(* ends the operation with fetch_json's Unauthorized or ResourceUnavailable:   *)
(* no later fetch is issued, the failed one is not repeated, and no resource   *)
(* object is returned.                                                         *)
Stage(frame) ==
    IF frame.name = "get_card"
    THEN CASE frame.pc = "card" -> 1 [] frame.pc = "list" -> 2 [] frame.pc = "board" -> 3
    ELSE CASE frame.pc = "board" -> 1 [] frame.pc = "label" -> 2

LastStage(frame) == IF frame.name = "get_card" THEN 3 ELSE 2

C10_FirstFailureEnds ==
    /\ (op /= Idle /\ op.name \in {"get_card", "get_label"}) =>
          /\ Len(sent) = Stage(op)
          /\ nFetch >= Stage(op)
    /\ (Ended("get_card") \/ Ended("get_label")) =>
          LET response == wire.resp IN
          /\ Len(sent) = Stage(result.call)
          /\ sent[Len(sent)] = wire.req
          /\ response.status_code = 401 => RaisedFor(response, "Unauthorized")
          /\ response.status_code \notin {200, 401} =>
                RaisedFor(response, "ResourceUnavailable")
          /\ result.kind = "return" =>
                /\ response.status_code = 200
                /\ Stage(result.call) = LastStage(result.call)

C10_Witness ==
    /\ Ended("get_card")
    /\ result.call.pc = "list"
    /\ wire.resp.status_code = 404
    /\ result.kind = "raise"
    /\ Len(sent) = 2

=============================================================================
